---- MODULE Spec2Model ----
(***************************************************************************)
(* State machine of src/src/App.tsx: the store of parcels and rows         *)
(* ("lines"), its persistence in localStorage, the drawing controller      *)
(* MapDrawer, the metadata editor and the GeoTIFF overlay loader.          *)
(*                                                                         *)
(* React's rules used throughout: a state setter that changes a state of   *)
(* App re-renders App; MapDrawer is a function declared inside App, so     *)
(* every render of App yields a new component type and React remounts it,  *)
(* which resets its own state (drawingPoints, isDrawing); an effect runs   *)
(* after the render whose dependency changed, before the next event.       *)
(***************************************************************************)
EXTENDS Integers, Sequences, FiniteSets, TLC

\* ---- bounds of the model ----
MaxClicks == 4      \* clicked points kept in one session, drawn or committed
MaxPatches == 1     \* metadata edits in one session
MaxTime == 1        \* last value of the millisecond clock

\* ---- constants of the program ----
MinLinePoints == 2
\* variant: a parcel accepted from as many points as a row
MinParcelPointsTwo == MinLinePoints
MinParcelPoints == 3

Points == {<<0, 0>>, <<1, 1>>}          \* (lat, lng) pairs a click can give
Values == {"b"}                         \* texts typed in the form
Fields == {"species", "sowingDate", "plantingDate", "notes", "photo"}
Rands == {0}                            \* random suffixes of an id

\* ---- JavaScript values ----
null == [type |-> "null"]
TheMap == [type |-> "map"]
TheLayer == [type |-> "layer"]

MinOf(S) == CHOOSE x \in S : \A y \in S : x <= y
MaxOf(S) == CHOOSE x \in S : \A y \in S : x >= y

\* ---- JSON text, as the tree of its grammar ----
JNull == [j |-> "null"]
JNum(n) == [j |-> "num", n |-> n]
JStr(s) == [j |-> "str", s |-> s]
JArr(items) == [j |-> "arr", items |-> items]
JObj(members) == [j |-> "obj", members |-> members]
Member(k, v) == [k |-> k, v |-> v]

Missing == [kind |-> "missing"]                 \* getItem gives null
Malformed == [kind |-> "text", syntax |-> "error"]
Doc(root) == [kind |-> "text", syntax |-> "ok", root |-> root]

\* the keys of obj among keys, in that order: JSON.stringify skips a key
\* whose value is undefined
RECURSIVE Present(_, _)
Present(obj, keys) ==
  IF keys = <<>> THEN <<>>
  ELSE (IF Head(keys) \in DOMAIN obj THEN <<Head(keys)>> ELSE <<>>)
       \o Present(obj, Tail(keys))

StringifyCoords(cs) ==
  JArr([i \in 1..Len(cs) |-> JArr(<<JNum(cs[i][1]), JNum(cs[i][2])>>)])

StringifyNullable(v) == IF v = null THEN JNull ELSE JStr(v)

StringifyParcelMeta(m) ==
  LET ks == Present(m, <<"name">>)
  IN  JObj([i \in 1..Len(ks) |-> Member(ks[i], JStr(m[ks[i]]))])

StringifyParcel(p) ==
  LET ks == Present(p, <<"id", "coords", "meta">>)
  IN  JObj([i \in 1..Len(ks) |->
            Member(ks[i], CASE ks[i] = "id" -> JStr(p.id)
                            [] ks[i] = "coords" -> StringifyCoords(p.coords)
                            [] ks[i] = "meta" -> StringifyParcelMeta(p.meta))])

StringifyLineMeta(m) ==
  LET ks == Present(m, <<"parcelId", "species", "sowingDate", "plantingDate",
                         "notes", "photo">>)
  IN  JObj([i \in 1..Len(ks) |->
            Member(ks[i], IF ks[i] = "parcelId" THEN StringifyNullable(m.parcelId)
                          ELSE JStr(m[ks[i]]))])

StringifyLine(l) ==
  JObj(<<Member("id", JStr(l.id)),
         Member("coords", StringifyCoords(l.coords)),
         Member("meta", StringifyLineMeta(l.meta))>>)

\* JSON.stringify(data), for data of the type { parcels: Parcel[]; lines: Line[] }
JSON_stringify(d) ==
  LET ks == Present(d, <<"parcels", "lines">>)
  IN  Doc(JObj([i \in 1..Len(ks) |->
        Member(ks[i],
               IF ks[i] = "parcels"
               THEN JArr([n \in 1..Len(d.parcels) |-> StringifyParcel(d.parcels[n])])
               ELSE JArr([n \in 1..Len(d.lines) |-> StringifyLine(d.lines[n])]))]))

\* the value of a JSON tree; an object takes, for each key, its last member
RECURSIVE ParseValue(_)
ParseValue(jv) ==
  CASE jv.j = "null" -> null
    [] jv.j = "num" -> jv.n
    [] jv.j = "str" -> jv.s
    [] jv.j = "arr" -> [i \in 1..Len(jv.items) |-> ParseValue(jv.items[i])]
    [] jv.j = "obj" ->
         [key \in {jv.members[i].k : i \in 1..Len(jv.members)} |->
            ParseValue(jv.members[
              MaxOf({i \in 1..Len(jv.members) : jv.members[i].k = key})].v)]

\* JSON.parse(raw): a value, or a SyntaxError thrown.  A number at the top is
\* kept boxed, as JavaScript boxes it when a property of it is read.
JSON_parse(raw) ==
  IF raw.syntax = "error" THEN [threw |-> TRUE]
  ELSE [threw |-> FALSE,
        value |-> IF raw.root.j = "num"
                  THEN [type |-> "number", value |-> raw.root.n]
                  ELSE ParseValue(raw.root)]

EmptyData == [parcels |-> <<>>, lines |-> <<>>]

\* variant: no try/catch, the SyntaxError leaves the initializer
loadDataNoCatch(raw) ==
  IF raw = Missing THEN EmptyData
  ELSE LET r == JSON_parse(raw)
       IN  IF r.threw THEN r ELSE r.value

loadData(raw) ==
  IF raw = Missing THEN EmptyData
  ELSE LET r == JSON_parse(raw)
       IN  IF r.threw THEN EmptyData ELSE r.value

\* ---- stored values a session can start from ----
StoredId(prefix, r) == [prefix |-> prefix, time |-> 0, rand |-> r]
DefaultMeta(parcelId) ==
  [parcelId |-> parcelId, species |-> "", sowingDate |-> "",
   plantingDate |-> "", notes |-> "", photo |-> ""]
P1 == [id |-> StoredId("parcel", 1),
       coords |-> <<<<0, 0>>, <<0, 1>>, <<1, 0>>>>, meta |-> [name |-> "Parcelle"]]
P3 == [id |-> StoredId("parcel", 3),
       coords |-> <<<<1, 1>>, <<1, 2>>, <<2, 1>>>>, meta |-> [name |-> "Parcelle"]]
L1 == [id |-> StoredId("line", 1), coords |-> <<<<0, 0>>, <<1, 0>>>>,
       meta |-> [DefaultMeta(P1.id) EXCEPT !.species = "a"]]

InitialStores ==
  { Missing, Malformed,
    Doc(JNull), Doc(JNum(5)),
    Doc(JObj(<<Member("parcels", JArr(<<>>))>>)),
    Doc(JObj(<<Member("lines", JArr(<<>>))>>)),
    JSON_stringify([parcels |-> <<P1, P3>>, lines |-> <<>>]),
    JSON_stringify([parcels |-> <<P3, P1>>, lines |-> <<L1>>]) }

\* ---- state ----
VARIABLES
  storage,          \* localStorage[STORAGE_KEY]
  data,             \* App: { parcels, lines }
  mode,             \* App: "none" | "parcel" | "line"
  selectedLineId,   \* App
  mapRef,           \* App: mapRef.current
  geoLayer,         \* App
  mapLayers,        \* overlay layers added to the Leaflet map
  tiff,             \* position of loadTiff
  fetches,          \* calls of fetch(TIFF_URL)
  console,          \* calls of console.error
  drawingPoints,    \* MapDrawer
  isDrawing,        \* MapDrawer
  now,              \* the last value read from Date.now()
  pc,               \* "init" before the first render is committed
  crashed,          \* a render threw: React unmounted the tree
  clicks,           \* points of the entities committed so far
  patches,          \* metadata edits so far
  last              \* the last handler run and its arguments

vars == <<storage, data, mode, selectedLineId, mapRef, geoLayer, mapLayers, tiff,
          fetches, console, drawingPoints, isDrawing, now, pc, crashed, clicks,
          patches, last>>

tiffVars == <<mapRef, geoLayer, mapLayers, tiff, fetches, console>>
budgetVars == <<clicks, patches>>

Init ==
  /\ storage \in InitialStores
  /\ data = loadData(storage)
  /\ mode = "none"
  /\ selectedLineId = null
  /\ mapRef = null
  /\ geoLayer = null
  /\ mapLayers = {}
  /\ tiff = "idle"
  /\ fetches = 0
  /\ console = 0
  /\ drawingPoints = <<>>
  /\ isDrawing = FALSE
  /\ now = 1
  /\ pc = "init"
  /\ crashed = FALSE
  /\ clicks = 0
  /\ patches = 0
  /\ last = [op |-> "loadData", raw |-> storage]

\* ---- rendering ----
\* the render reads data.lines.find, data.lines.map and data.parcels.map
RenderThrows(d) == ~({"parcels", "lines"} \subseteq DOMAIN d)

selectedLine ==
  LET S == {i \in 1..Len(data.lines) : data.lines[i].id = selectedLineId}
  IN  IF S = {} THEN null ELSE data.lines[MinOf(S)]

Running == pc = "running" /\ ~crashed

\* variant: MapDrawer declared outside App, its state survives a render of App
MapDrawerKept == UNCHANGED <<drawingPoints, isDrawing>>

\* a render of App remounts MapDrawer
RemountMapDrawer == drawingPoints' = <<>> /\ isDrawing' = FALSE

\* variant: the effect writes the data of the render before
SaveStale == storage' = JSON_stringify(data)

\* the effect "Sauvegarde automatique", run after a render with a new data
Save == storage' = JSON_stringify(data')

\* `${prefix}_${Date.now()}_${Math.random()}`, for a clock read as t
uid(prefix, t, r) == [prefix |-> prefix, time |-> t, rand |-> r]

\* ---- first render and its effects ----
Mount ==
  /\ pc = "init"
  /\ pc' = "running"
  /\ UNCHANGED <<data, mode, selectedLineId, mapRef, geoLayer, mapLayers, console,
                 drawingPoints, isDrawing, now, clicks, patches, last>>
  /\ IF RenderThrows(data)
     THEN /\ crashed' = TRUE
          /\ UNCHANGED <<storage, tiff, fetches>>
     ELSE /\ crashed' = FALSE
          /\ Save
          /\ IF mapRef = null
             THEN tiff' = "skipped" /\ fetches' = fetches
             ELSE tiff' = "fetch" /\ fetches' = fetches + 1

whenCreated ==
  /\ ~crashed
  /\ ~RenderThrows(data)
  /\ mapRef = null
  /\ mapRef' = TheMap
  /\ UNCHANGED <<storage, data, mode, selectedLineId, geoLayer, mapLayers, tiff,
                 fetches, console, drawingPoints, isDrawing, now, pc, crashed,
                 clicks, patches, last>>

\* ---- the store's operations (App) ----
\* L.polygon(coords).getBounds(): the box of the extreme latitudes and longitudes
getBounds(coords) ==
  LET lats == {coords[i][1] : i \in 1..Len(coords)}
      lngs == {coords[i][2] : i \in 1..Len(coords)}
  IN  [south |-> MinOf(lats), north |-> MaxOf(lats),
       west |-> MinOf(lngs), east |-> MaxOf(lngs)]

\* LatLngBounds.contains(latlng): borders included
contains(b, latlng) ==
  /\ latlng[1] >= b.south
  /\ latlng[1] <= b.north
  /\ latlng[2] >= b.west
  /\ latlng[2] <= b.east

\* variant: a new parcel takes over the rows its bounding box contains
addParcelReassociates(coords, t, r) ==
  LET p == [id |-> uid("parcel", t, r), coords |-> coords, meta |-> [name |-> "Parcelle"]]
      mid(l) == l.coords[(Len(l.coords) \div 2) + 1]
  IN  [parcels |-> Append(data.parcels, p),
       lines |-> [i \in 1..Len(data.lines) |->
                    IF contains(getBounds(coords), mid(data.lines[i]))
                    THEN [data.lines[i] EXCEPT !.meta.parcelId = p.id]
                    ELSE data.lines[i]]]

\* variant: the new parcel replaces the collection
addParcelOnly(coords, t, r) ==
  LET p == [id |-> uid("parcel", t, r), coords |-> coords, meta |-> [name |-> "Parcelle"]]
  IN  [data EXCEPT !.parcels = <<p>>]

\* variant: the new parcel put first
addParcelFirst(coords, t, r) ==
  LET p == [id |-> uid("parcel", t, r), coords |-> coords, meta |-> [name |-> "Parcelle"]]
  IN  [data EXCEPT !.parcels = <<p>> \o @]

addParcel(coords, t, r) ==
  LET p == [id |-> uid("parcel", t, r), coords |-> coords, meta |-> [name |-> "Parcelle"]]
  IN  [data EXCEPT !.parcels = Append(@, p)]

\* variant: the loop without its break, the last containing parcel wins
RECURSIVE parcelOfNoBreak(_, _, _)
parcelOfNoBreak(parcels, mid, i) ==
  IF i > Len(parcels) THEN null
  ELSE LET later == parcelOfNoBreak(parcels, mid, i + 1)
       IN  IF later # null THEN later
           ELSE IF contains(getBounds(parcels[i].coords), mid) THEN parcels[i].id
           ELSE null

\* the loop of addLine over data.parcels from index i, with its break
RECURSIVE parcelOf(_, _, _)
parcelOf(parcels, mid, i) ==
  IF i > Len(parcels) THEN null
  ELSE IF contains(getBounds(parcels[i].coords), mid) THEN parcels[i].id
  ELSE parcelOf(parcels, mid, i + 1)

\* variant: the new row is not selected
addLineUnselected(coords, t, r) ==
  LET mid == coords[(Len(coords) \div 2) + 1]
      parcelId == parcelOf(data.parcels, mid, 1)
      l == [id |-> uid("line", t, r), coords |-> coords,
            meta |-> [parcelId |-> parcelId, species |-> "", sowingDate |-> "",
                      plantingDate |-> "", notes |-> "", photo |-> ""]]
  IN  [data |-> [data EXCEPT !.lines = Append(@, l)], selectedLineId |-> selectedLineId]

addLine(coords, t, r) ==
  LET mid == coords[(Len(coords) \div 2) + 1]
      parcelId == parcelOf(data.parcels, mid, 1)
      l == [id |-> uid("line", t, r), coords |-> coords,
            meta |-> [parcelId |-> parcelId, species |-> "", sowingDate |-> "",
                      plantingDate |-> "", notes |-> "", photo |-> ""]]
  IN  [data |-> [data EXCEPT !.lines = Append(@, l)], selectedLineId |-> l.id]

\* variant: meta: patch, without the spread of the old meta
SpreadPatchOnly(meta, patch) == patch

\* { ...meta, ...patch }
Spread(meta, patch) ==
  [k \in DOMAIN meta \cup DOMAIN patch |->
     IF k \in DOMAIN patch THEN patch[k] ELSE meta[k]]

updateLineMeta(id, patch) ==
  [data EXCEPT !.lines =
     [i \in 1..Len(data.lines) |->
        IF data.lines[i].id = id
        THEN [data.lines[i] EXCEPT !.meta = Spread(@, patch)]
        ELSE data.lines[i]]]

\* variant: the selection is not cleared
deleteLineKeepsSelection(id) ==
  [data |-> [data EXCEPT !.lines = SelectSeq(@, LAMBDA ln : ln.id # id)],
   selectedLineId |-> selectedLineId]

\* variant: the new state built without ...d
deleteLineNoSpread(id) ==
  [data |-> [lines |-> SelectSeq(data.lines, LAMBDA ln : ln.id # id)],
   selectedLineId |-> IF selectedLineId = id THEN null ELSE selectedLineId]

deleteLine(id) ==
  [data |-> [data EXCEPT !.lines = SelectSeq(@, LAMBDA ln : ln.id # id)],
   selectedLineId |-> IF selectedLineId = id THEN null ELSE selectedLineId]

\* ---- the sidebar (App) ----
toggleParcel ==
  /\ Running
  /\ mode' = IF mode = "parcel" THEN "none" ELSE "parcel"
  /\ RemountMapDrawer
  /\ last' = [op |-> "toggleParcel", discarded |-> drawingPoints # <<>>]
  /\ UNCHANGED <<storage, data, selectedLineId, now, pc, crashed>>
  /\ UNCHANGED tiffVars
  /\ UNCHANGED budgetVars

toggleLine ==
  /\ Running
  /\ mode' = IF mode = "line" THEN "none" ELSE "line"
  /\ RemountMapDrawer
  /\ last' = [op |-> "toggleLine", discarded |-> drawingPoints # <<>>]
  /\ UNCHANGED <<storage, data, selectedLineId, now, pc, crashed>>
  /\ UNCHANGED tiffVars
  /\ UNCHANGED budgetVars

\* the rows rendered: data.lines.map, once the first render is committed
rowButtons == IF Running THEN DOMAIN data.lines ELSE {}

\* the button of row i, or a click on its Polyline
selectLine(i) ==
  /\ Running
  /\ i \in 1..Len(data.lines)
  /\ selectedLineId' = data.lines[i].id
  /\ IF selectedLineId' # selectedLineId
     THEN RemountMapDrawer
     ELSE UNCHANGED <<drawingPoints, isDrawing>>
  /\ last' = [op |-> "selectLine"]
  /\ UNCHANGED <<storage, data, mode, now, pc, crashed>>
  /\ UNCHANGED tiffVars
  /\ UNCHANGED budgetVars

\* onChange of the form's input of one field
editField(field, value) ==
  /\ Running
  /\ selectedLine # null
  /\ patches < MaxPatches
  /\ patches' = patches + 1
  /\ data' = updateLineMeta(selectedLine.id, [k \in {field} |-> value])
  /\ Save
  /\ RemountMapDrawer
  /\ last' = [op |-> "updateLineMeta"]
  /\ UNCHANGED <<mode, selectedLineId, now, pc, crashed, clicks>>
  /\ UNCHANGED tiffVars

Supprimer ==
  /\ Running
  /\ selectedLine # null
  /\ data' = deleteLine(selectedLine.id).data
  /\ selectedLineId' = deleteLine(selectedLine.id).selectedLineId
  /\ Save
  /\ RemountMapDrawer
  /\ last' = [op |-> "deleteLine"]
  /\ UNCHANGED <<mode, now, pc, crashed>>
  /\ UNCHANGED tiffVars
  /\ UNCHANGED budgetVars

\* ---- the drawing controller (MapDrawer) ----
\* variant: the handler without its test of isDrawing
clickUnstarted(latlng) ==
  /\ Running
  /\ IF mode = "none"
     THEN UNCHANGED <<drawingPoints, last>>
     ELSE /\ clicks + Len(drawingPoints) < MaxClicks
          /\ drawingPoints' = Append(drawingPoints, latlng)
          /\ last' = [op |-> "click"]
  /\ UNCHANGED <<storage, data, mode, selectedLineId, isDrawing, now, pc, crashed>>
  /\ UNCHANGED tiffVars
  /\ UNCHANGED budgetVars

click(latlng) ==
  /\ Running
  /\ IF ~isDrawing \/ mode = "none"
     THEN UNCHANGED <<drawingPoints, last>>
     ELSE /\ clicks + Len(drawingPoints) < MaxClicks
          /\ drawingPoints' = Append(drawingPoints, latlng)
          /\ last' = [op |-> "click"]
  /\ UNCHANGED <<storage, data, mode, selectedLineId, isDrawing, now, pc, crashed>>
  /\ UNCHANGED tiffVars
  /\ UNCHANGED budgetVars

startDrawing ==
  /\ Running
  /\ mode # "none"
  /\ ~isDrawing
  /\ isDrawing' = TRUE
  /\ last' = [op |-> "startDrawing"]
  /\ UNCHANGED <<storage, data, mode, selectedLineId, drawingPoints, now, pc,
                 crashed>>
  /\ UNCHANGED tiffVars
  /\ UNCHANGED budgetVars

finish(t, r) ==
  /\ Running
  /\ mode # "none"
  /\ isDrawing
  /\ IF mode = "parcel" /\ Len(drawingPoints) >= MinParcelPoints
     THEN /\ data' = addParcel(drawingPoints, t, r)
          /\ selectedLineId' = selectedLineId
          /\ now' = t
          /\ clicks' = clicks + Len(drawingPoints)
          /\ Save
     ELSE IF mode = "line" /\ Len(drawingPoints) >= MinLinePoints
     THEN /\ data' = addLine(drawingPoints, t, r).data
          /\ selectedLineId' = addLine(drawingPoints, t, r).selectedLineId
          /\ now' = t
          /\ clicks' = clicks + Len(drawingPoints)
          /\ Save
     ELSE UNCHANGED <<data, selectedLineId, storage, now, clicks>>
  /\ drawingPoints' = <<>>
  /\ mode' = "none"
  /\ isDrawing' = FALSE
  /\ last' = [op |-> "finish", mode |-> mode, length |-> Len(drawingPoints)]
  /\ UNCHANGED <<pc, crashed, patches>>
  /\ UNCHANGED tiffVars

\* variant: the button also leaves the started drawing
EffacerStops ==
  /\ Running
  /\ mode # "none"
  /\ drawingPoints' = <<>>
  /\ isDrawing' = FALSE
  /\ last' = [op |-> "Effacer", discarded |-> drawingPoints # <<>>]
  /\ UNCHANGED <<storage, data, mode, selectedLineId, now, pc, crashed>>
  /\ UNCHANGED tiffVars
  /\ UNCHANGED budgetVars

Effacer ==
  /\ Running
  /\ mode # "none"
  /\ drawingPoints' = <<>>
  /\ last' = [op |-> "Effacer", discarded |-> drawingPoints # <<>>]
  /\ UNCHANGED <<storage, data, mode, selectedLineId, isDrawing, now, pc, crashed>>
  /\ UNCHANGED tiffVars
  /\ UNCHANGED budgetVars

\* ---- loadTiff ----
\* await fetch(TIFF_URL) and await response.arrayBuffer() have resolved
fetchResolved ==
  /\ Running
  /\ tiff = "fetch"
  /\ tiff' = "parseGeoraster"
  /\ UNCHANGED <<storage, data, mode, selectedLineId, mapRef, geoLayer, mapLayers,
                 fetches, console, drawingPoints, isDrawing, now, pc, crashed, last>>
  /\ UNCHANGED budgetVars

\* await parseGeoraster has resolved: the rest of the try block, where geoLayer
\* is the null of the first render
parseGeorasterResolved ==
  /\ Running
  /\ tiff = "parseGeoraster"
  /\ tiff' = "done"
  /\ mapLayers' = mapLayers \cup {TheLayer}
  /\ geoLayer' = TheLayer
  /\ RemountMapDrawer
  /\ UNCHANGED <<storage, data, mode, selectedLineId, mapRef, fetches, console, now,
                 pc, crashed, last>>
  /\ UNCHANGED budgetVars

\* variant: the catch block fetches again
loadTiffCatchRetry ==
  /\ Running
  /\ tiff \in {"fetch", "parseGeoraster"}
  /\ tiff' = "fetch"
  /\ fetches' = fetches + 1
  /\ console' = console + 1
  /\ UNCHANGED <<storage, data, mode, selectedLineId, mapRef, geoLayer, mapLayers,
                 drawingPoints, isDrawing, now, pc, crashed, last>>
  /\ UNCHANGED budgetVars

\* a rejected await: the catch block
loadTiffCatch ==
  /\ Running
  /\ tiff \in {"fetch", "parseGeoraster"}
  /\ tiff' = "failed"
  /\ console' = console + 1
  /\ UNCHANGED <<storage, data, mode, selectedLineId, mapRef, geoLayer, mapLayers,
                 fetches, drawingPoints, isDrawing, now, pc, crashed, last>>
  /\ UNCHANGED budgetVars

Next ==
  \/ Mount
  \/ whenCreated
  \/ toggleParcel
  \/ toggleLine
  \/ \E i \in rowButtons : selectLine(i)
  \/ \E field \in Fields, value \in Values : editField(field, value)
  \/ Supprimer
  \/ \E latlng \in Points : click(latlng)
  \/ startDrawing
  \/ \E t \in now..MaxTime, r \in Rands : finish(t, r)
  \/ Effacer
  \/ fetchResolved
  \/ parseGeorasterResolved
  \/ loadTiffCatch

Spec == Init /\ [][Next]_vars

\* ---- properties ----
FinishStep == \E t \in now..MaxTime, r \in Rands : finish(t, r)

\* C1: a finish with at least 3 points in parcel mode (at least 2 in row mode)
\* appends exactly one entity of that kind at the end of its collection, with the
\* clicked points in click order as coords; the other collection and the entities
\* that existed before are unchanged.
C1_FinishAppendsOne ==
  [][FinishStep =>
       /\ (mode = "parcel" /\ Len(drawingPoints) >= 3) =>
            /\ Len(data'.parcels) = Len(data.parcels) + 1
            /\ SubSeq(data'.parcels, 1, Len(data.parcels)) = data.parcels
            /\ data'.parcels[Len(data'.parcels)].coords = drawingPoints
            /\ data'.lines = data.lines
       /\ (mode = "line" /\ Len(drawingPoints) >= 2) =>
            /\ Len(data'.lines) = Len(data.lines) + 1
            /\ SubSeq(data'.lines, 1, Len(data.lines)) = data.lines
            /\ data'.lines[Len(data'.lines)].coords = drawingPoints
            /\ data'.parcels = data.parcels]_vars

\* a parcel of three clicked points was just committed after two stored ones
C1_Witness ==
  /\ last.op = "finish"
  /\ last.mode = "parcel"
  /\ last.length = 3
  /\ Len(data.parcels) = 3
  /\ data.parcels[3].coords = <<<<0, 0>>, <<1, 1>>, <<0, 0>>>>
  /\ data.parcels[3].id.time >= 1

\* C2: a finish with fewer than 3 points in parcel mode, or fewer than 2 in row
\* mode, adds nothing (both collections and the selection are unchanged), raises
\* no error, and ends in mode "none" with no in-progress point and drawing off.
C2_ShortFinishIsNoOp ==
  [][(/\ FinishStep
      /\ \/ mode = "parcel" /\ Len(drawingPoints) < 3
         \/ mode = "line" /\ Len(drawingPoints) < 2) =>
       /\ data' = data
       /\ selectedLineId' = selectedLineId
       /\ console' = console
       /\ crashed' = FALSE
       /\ mode' = "none"
       /\ drawingPoints' = <<>>
       /\ isDrawing' = FALSE]_vars

\* a finish of a parcel drawing that had two points
C2_Witness ==
  /\ last.op = "finish"
  /\ last.mode = "parcel"
  /\ last.length = 2
  /\ mode = "none"
  /\ Len(data.parcels) = 2

\* the point lies between the extreme latitudes and longitudes of coords
InBoundingBox(X, coords) ==
  /\ \E i \in 1..Len(coords) : coords[i][1] <= X[1]
  /\ \E i \in 1..Len(coords) : coords[i][1] >= X[1]
  /\ \E i \in 1..Len(coords) : coords[i][2] <= X[2]
  /\ \E i \in 1..Len(coords) : coords[i][2] >= X[2]

\* C3: the parcelId of a committed row of n points is the id of the first parcel,
\* in collection order, whose bounding box contains the row's point of index
\* floor(n/2), and null when no bounding box contains it.
C3_RowAssociation ==
  [][(FinishStep /\ mode = "line" /\ Len(drawingPoints) >= 2) =>
       LET n == Len(drawingPoints)
           X == drawingPoints[(n \div 2) + 1]
           S == {i \in 1..Len(data.parcels) : InBoundingBox(X, data.parcels[i].coords)}
           row == data'.lines[Len(data'.lines)]
       IN  IF S = {} THEN row.meta.parcelId = null
           ELSE row.meta.parcelId = data.parcels[MinOf(S)].id]_vars

\* a row whose representative point (1,1) is in the bounding box of the first
\* parcel P1 but outside its triangle, and in the box of the second parcel P3
C3_Witness ==
  /\ last.op = "finish"
  /\ last.mode = "line"
  /\ last.length = 2
  /\ data.lines[Len(data.lines)].coords = <<<<0, 0>>, <<1, 1>>>>
  /\ data.parcels = <<P1, P3>>
  /\ data.lines[Len(data.lines)].meta.parcelId = P1.id

\* C4: a metadata patch on row id R replaces exactly the patched fields of R's
\* metadata; R's other metadata fields, its id and coords, every other row, the
\* order of the rows, the parcels and the selection are unchanged.
C4_PatchTouchesOnlyR ==
  [][\A f \in Fields, v \in Values :
       editField(f, v) =>
         LET R == selectedLineId
         IN  /\ Len(data'.lines) = Len(data.lines)
             /\ \A i \in 1..Len(data.lines) :
                  LET a == data.lines[i]
                      b == data'.lines[i]
                  IN  IF a.id = R
                      THEN /\ b.id = a.id
                           /\ b.coords = a.coords
                           /\ DOMAIN b.meta = DOMAIN a.meta \cup {f}
                           /\ b.meta[f] = v
                           /\ \A g \in DOMAIN a.meta \ {f} : b.meta[g] = a.meta[g]
                      ELSE b = a
             /\ data'.parcels = data.parcels
             /\ selectedLineId' = selectedLineId]_vars

\* the notes of the stored row were just patched, its species kept, beside
\* another row
C4_Witness ==
  /\ last.op = "updateLineMeta"
  /\ Len(data.lines) = 2
  /\ selectedLineId = L1.id
  /\ data.lines[1] = [L1 EXCEPT !.meta.notes = "b"]
  /\ data.lines[2].meta.notes = ""

\* C5: deleting row id R removes R and keeps the other rows, in order, and the
\* parcels; the selection becomes null when R was selected and is unchanged when
\* another row, or none, was selected.
C5_DeleteRow ==
  /\ [][Supprimer =>
          LET R == selectedLine.id
              K == {i \in 1..Len(data.lines) : data.lines[i].id # R}
          IN  /\ Len(data'.lines) = Cardinality(K)
              /\ \A i \in K :
                   data'.lines[Cardinality({j \in K : j <= i})] = data.lines[i]
              /\ data'.parcels = data.parcels
              /\ selectedLineId' = IF selectedLineId = R THEN null
                                   ELSE selectedLineId]_vars
  /\ [](Running =>
          \A i \in 1..Len(data.lines) :
            LET R == data.lines[i].id
            IN  /\ R = selectedLineId => deleteLine(R).selectedLineId = null
                /\ R # selectedLineId =>
                     deleteLine(R).selectedLineId = selectedLineId)

\* the selected stored row was just deleted, and a row drawn before remains
C5_Witness ==
  /\ last.op = "deleteLine"
  /\ selectedLineId = null
  /\ Len(data.lines) = 1
  /\ data.lines[1].id # L1.id
  /\ data.parcels = <<P3, P1>>

\* C6: once the write-back of the last change has run, the value stored under
\* the key decodes to the in-memory { parcels, lines }, field for field, so a
\* restart loads the state that was in memory; the stored object has no other
\* member (no selection, no draw mode, no in-progress point).
C6_StoredIsData ==
  Running =>
    /\ storage # Missing
    /\ storage.syntax = "ok"
    /\ storage.root.j = "obj"
    /\ {storage.root.members[i].k : i \in 1..Len(storage.root.members)}
         = {"parcels", "lines"}
    /\ loadData(storage) = data

\* after a row was drawn, a row patched and a row deleted
C6_Witness ==
  /\ last.op = "deleteLine"
  /\ patches = 1
  /\ clicks >= 2
  /\ Len(data.lines) = 1
  /\ data.lines[1].id.time >= 1
  /\ data.lines[1].meta.species = "b"
  /\ loadData(storage) = data

\* C7: at startup a missing key or a malformed stored text yields the state
\* with both collections empty, and no error is raised.
C7_DecodeFailureGivesEmpty ==
  (last.op = "loadData" /\ (last.raw = Missing \/ last.raw.syntax = "error")) =>
    /\ data = EmptyData
    /\ ~crashed

\* the first render is committed after a malformed text was read
C7_Witness ==
  /\ last.op = "loadData"
  /\ last.raw = Malformed
  /\ pc = "running"
  /\ data = EmptyData
  /\ ~crashed

\* C8: once the first render is committed, the overlay loader has fetched the
\* remote URL.
C8_FetchedOnMount == Running => fetches = 1

\* C9: a failure of the fetch or of the decoding is caught and logged, leaves
\* the overlay absent and the parcels, rows, selection, draw mode and in-progress
\* points unchanged, and is never followed by another fetch: at most one fetch
\* is issued in a session.
C9_FailureIsLoggedOnly ==
  [][/\ (tiff # "failed" /\ tiff' = "failed") =>
          /\ console' = console + 1
          /\ geoLayer' = null
          /\ mapLayers' = {}
          /\ UNCHANGED <<data, selectedLineId, mode, drawingPoints, isDrawing>>
     /\ tiff = "failed" =>
          /\ tiff' = "failed"
          /\ geoLayer' = null
          /\ mapLayers' = {}
          /\ console' = console
     /\ fetches' <= 1
     /\ fetches' >= fetches]_vars

\* the load failed while a drawing with a point was in progress
C9_Witness ==
  /\ tiff = "failed"
  /\ console = 1
  /\ fetches = 1
  /\ geoLayer = null
  /\ isDrawing
  /\ Len(drawingPoints) >= 1

\* C10: the parcel collection is append-only: no step removes or reorders
\* parcels or changes the id, coords or name of an existing parcel.
C10_ParcelsAppendOnly ==
  [][~RenderThrows(data) =>
       /\ "parcels" \in DOMAIN data'
       /\ Len(data'.parcels) >= Len(data.parcels)
       /\ SubSeq(data'.parcels, 1, Len(data.parcels)) = data.parcels]_vars

\* a row was deleted after a parcel was added to the two stored ones
C10_Witness ==
  /\ last.op = "deleteLine"
  /\ Len(data.parcels) = 3
  /\ SubSeq(data.parcels, 1, 2) = <<P3, P1>>
  /\ data.lines = <<>>

\* C11: the parcelId of a row is the one computed when the row was committed:
\* no step changes the parcelId of a row that stays in the collection, whether
\* it adds a parcel (one whose bounding box contains the row included), adds or
\* deletes another row, or patches a metadata field of the row.
C11_ParcelIdIsFrozen ==
  [][("lines" \in DOMAIN data) =>
       IF Supprimer
       THEN LET R == selectedLine.id
                K == {i \in 1..Len(data.lines) : data.lines[i].id # R}
            IN  \A i \in K :
                  data'.lines[Cardinality({j \in K : j <= i})].meta.parcelId
                    = data.lines[i].meta.parcelId
       ELSE /\ Len(data'.lines) >= Len(data.lines)
            /\ \A i \in 1..Len(data.lines) :
                 /\ data'.lines[i].id = data.lines[i].id
                 /\ data'.lines[i].meta.parcelId = data.lines[i].meta.parcelId]_vars

\* the stored row, associated with P1, after a third parcel whose bounding box
\* contains its representative point was added and its notes were patched
C11_Witness ==
  /\ last.op = "updateLineMeta"
  /\ Len(data.parcels) = 3
  /\ Len(data.lines) = 1
  /\ data.lines[1].id = L1.id
  /\ contains(getBounds(data.parcels[3].coords), L1.coords[2])
  /\ data.lines[1].meta.notes = "b"
  /\ data.lines[1].meta.parcelId = P1.id

\* C12: in every state reached from an empty store, a stored value written by
\* such a session included, the parcelId of every row is null or the id of a
\* parcel present in the parcel collection.
C12_NoDanglingParcelId ==
  ~RenderThrows(data) =>
    \A i \in 1..Len(data.lines) :
      LET parcelId == data.lines[i].meta.parcelId
      IN  \/ parcelId = null
          \/ \E j \in 1..Len(data.parcels) : data.parcels[j].id = parcelId

\* a row drawn in this session refers to the stored parcel P3, after the stored
\* row was deleted
C12_Witness ==
  /\ last.op = "deleteLine"
  /\ Len(data.lines) = 1
  /\ data.lines[1].id.time >= 1
  /\ data.lines[1].meta.parcelId = P3.id
  /\ \E j \in 1..Len(data.parcels) : data.parcels[j] = P3

\* C13: the clear button empties the in-progress points and leaves the draw
\* mode, the started-drawing flag, the parcels, the rows and the selection
\* unchanged, so the next map clicks accumulate in the same draw mode.
C13_ClearKeepsDrawing ==
  [][Effacer =>
       /\ drawingPoints' = <<>>
       /\ UNCHANGED <<mode, isDrawing, data, selectedLineId>>]_vars

\* the points of a started row drawing were just cleared
C13_Witness ==
  /\ last.op = "Effacer"
  /\ last.discarded
  /\ mode = "line"
  /\ isDrawing
  /\ drawingPoints = <<>>

\* C14: leaving a draw mode, by toggling it off or by switching to the other
\* draw mode, discards the in-progress points: in every state with mode "none"
\* the in-progress point sequence is empty, and every step that changes the
\* mode ends with no in-progress point, so points clicked under one draw mode
\* are never committed into an entity of the other mode.
C14_ModeChangeDiscardsPoints ==
  /\ [](mode = "none" => drawingPoints = <<>>)
  /\ [][mode' # mode => drawingPoints' = <<>>]_vars

\* a parcel drawing with points was just switched to the row mode
C14_Witness ==
  /\ last.op = "toggleLine"
  /\ last.discarded
  /\ mode = "line"
  /\ drawingPoints = <<>>

\* C15: the completion of the raster load, success or failure, leaves the draw
\* mode, the started-drawing flag, the in-progress points, the parcels and the
\* rows unchanged.
C15_LoadLeavesDrawing ==
  [][(tiff' # tiff /\ tiff' \in {"done", "failed"}) =>
       UNCHANGED <<mode, isDrawing, drawingPoints, data>>]_vars

\* C16: in every state no two entities, parcels or rows, share an id.
C16_IdsAreUnique ==
  ~RenderThrows(data) =>
    /\ \A i, j \in 1..Len(data.lines) :
         data.lines[i].id = data.lines[j].id => i = j
    /\ \A i, j \in 1..Len(data.parcels) :
         data.parcels[i].id = data.parcels[j].id => i = j
    /\ \A i \in 1..Len(data.lines), j \in 1..Len(data.parcels) :
         data.lines[i].id # data.parcels[j].id

\* C17: selecting a row, patching a row's metadata and deleting a row while a
\* drawing is in progress leave the in-progress points and the started-drawing
\* flag unchanged.
C17_StoreActionsKeepDrawing ==
  [][(\/ \E i \in rowButtons : selectLine(i)
      \/ \E field \in Fields, value \in Values : editField(field, value)
      \/ Supprimer) =>
       UNCHANGED <<drawingPoints, isDrawing>>]_vars

\* C18: a map click appends its (lat, lng) at the end of the in-progress points
\* exactly when a draw mode is active and the drawing was started; with mode
\* "none" or before the start it changes nothing; no click changes the parcels,
\* the rows, the selection, the mode or the started-drawing flag.
C18_ClickAppendsWhenDrawing ==
  [][\A latlng \in Points :
       click(latlng) =>
         /\ IF isDrawing /\ mode # "none"
            THEN drawingPoints' = Append(drawingPoints, latlng)
            ELSE drawingPoints' = drawingPoints
         /\ UNCHANGED <<data, selectedLineId, mode, isDrawing>>]_vars

\* two clicks of a started drawing, kept in click order
C18_Witness ==
  /\ last.op = "click"
  /\ isDrawing
  /\ mode = "parcel"
  /\ drawingPoints = <<<<1, 1>>, <<0, 0>>>>

\* C19: in every state the selection is null or the id of a row present in the
\* row collection, so it never points at a deleted row; committing a row sets
\* the selection to the id of the new row.
C19_SelectionIsPresentRow ==
  /\ [](\/ selectedLineId = null
        \/ \E i \in 1..Len(data.lines) : data.lines[i].id = selectedLineId)
  /\ [][(FinishStep /\ mode = "line" /\ Len(drawingPoints) >= 2) =>
          selectedLineId' = data'.lines[Len(data'.lines)].id]_vars

\* a row was just committed after the stored one and is the selection
C19_Witness ==
  /\ last.op = "finish"
  /\ last.mode = "line"
  /\ Len(data.lines) = 2
  /\ data.lines[1].id = L1.id
  /\ selectedLineId = data.lines[2].id
  /\ selectedLineId # L1.id

====
